---- MODULE Spec2Model ----
(***************************************************************************)
(* Model of pkg/assets/create/creater.go: EnsureManifestsCreated (the      *)
(* retry driver around wait.PollImmediateUntil), create (one apply round   *)
(* over the pending manifest map) and formatErrors.                        *)
(*                                                                         *)
(* Every per-invocation variable is a function over Insts, so that two     *)
(* invocations of the driver against one platform can be modelled; in Spec *)
(* only invocation 1 runs.  The platform (the API server behind the        *)
(* dynamic client and the discovery client) is the environment: its        *)
(* replies are nondeterministic within what a server can answer.           *)
(***************************************************************************)
EXTENDS Naturals, Sequences, FiniteSets, TLC

\* ------------------------------------------------------------------ bounds
NumManifests == 3
MaxRounds == 3
MaxCalls == 2
MaxRoundsTwo == 2
NumManifestsTwo == 2

Insts == {1, 2}

\* ------------------------------------------------------------ manifest data
\* File names of the manifest directory, as byte strings (sequences of digits):
\* "10", "2", "1", "100", "0".  Their lexicographic order is not the order of
\* the table, and "1" is a prefix of "10".
PathTable == << <<1, 0>>, <<2>>, <<1>>, <<1, 0, 0>>, <<0>> >>

ManifestPath(n) == PathTable[n]

\* The kinds of create_test.go: a namespaced one and a cluster-scoped one.
Kinds == {"ConfigMap", "KubeAPIServerOperatorConfig"}

KindOf(n) == IF n % 2 = 1 THEN "ConfigMap" ELSE "KubeAPIServerOperatorConfig"

\* One decoded manifest (unstructured.Unstructured): its kind, namespace, name.
Manifest(n) ==
    [kind |-> KindOf(n),
     namespace |-> IF KindOf(n) = "ConfigMap" THEN "openshift-kube-apiserver" ELSE "",
     name |-> n]

\* What load can return: a map path -> manifest over any subset of the files.
ManifestMaps ==
    {[p \in {ManifestPath(n) : n \in S} |->
        Manifest(CHOOSE n \in S : ManifestPath(n) = p)] : S \in SUBSET (1..NumManifests)}

\* --------------------------------------------------------------- map helpers
EmptyMap == <<>>

Put(f, k, v) == [x \in (DOMAIN f) \cup {k} |-> IF x = k THEN v ELSE f[x]]

Delete(f, k) == [x \in (DOMAIN f) \ {k} |-> f[x]]

\* The orders in which a Go `for key := range m` can visit the keys S.
RangeOrders(S) ==
    {s \in [1..Cardinality(S) -> S] : \A a, b \in 1..Cardinality(S) : s[a] = s[b] => a = b}

\* ------------------------------------------------------------- sort.Strings
\* Byte-wise lexicographic order of Go strings: a proper prefix is smaller.
RECURSIVE LexLess(_, _)
LexLess(a, b) ==
    IF b = <<>> THEN FALSE
    ELSE IF a = <<>> THEN TRUE
    ELSE IF Head(a) < Head(b) THEN TRUE
    ELSE IF Head(a) > Head(b) THEN FALSE
    ELSE LexLess(Tail(a), Tail(b))

RECURSIVE Insert(_, _)
Insert(s, x) ==
    IF s = <<>> THEN <<x>>
    ELSE IF LexLess(x, Head(s)) THEN <<x>> \o s
    ELSE <<Head(s)>> \o Insert(Tail(s), x)

\* A variant of the sort with one slip: the keys stay in map order.
SortStringsOmitted(s) == s

RECURSIVE SortStrings(_)
SortStrings(s) ==
    IF s = <<>> THEN <<>> ELSE Insert(SortStrings(Tail(s)), Head(s))

\* -------------------------------------------------------------------- errors
Nil == [kind |-> "nil", lines |-> <<>>]

\* wait.ErrWaitTimeout, what PollImmediateUntil returns when ctx.Done() fires.
ErrWaitTimeout == [kind |-> "timeout", lines |-> <<>>]

\* The error of getRESTMapper (restmapper.GetAPIGroupResources failed).
DiscoveryErr == [kind |-> "discovery", lines |-> <<>>]

\* The error of dynamic.NewForConfig, NewDiscoveryClientForConfig or load.
SetupErr == [kind |-> "setup", lines |-> <<>>]

MappingFailure == "unable to get REST mapping"

CreateFailure == "failed to create"

\* A variant of formatErrors with one slip: the keys are not sorted.
FormatErrorsUnsorted(errors, order) ==
    IF Cardinality(DOMAIN errors) = 0 THEN Nil
    ELSE [kind |-> "aggregate",
          lines |-> [k \in 1..Len(order) |-> <<order[k], errors[order[k]]>>]]

\* formatErrors: nil for an empty map, else one line per key, keys sorted.
\* `order` is the order in which the range over the map visited its keys.
FormatErrors(errors, order) ==
    IF Cardinality(DOMAIN errors) = 0 THEN Nil
    ELSE LET keys == SortStrings(order)
         IN [kind |-> "aggregate",
             lines |-> [k \in 1..Len(keys) |-> <<keys[k], errors[keys[k]]>>]]

\* ------------------------------------------------------------------ mapping
\* A discovery snapshot is the set of kinds the platform lists; the mapper
\* built from it resolves exactly those kinds.
KindInfo(kind) ==
    IF kind = "ConfigMap"
    THEN [resource |-> "configmaps", scope |-> "namespace"]
    ELSE [resource |-> "kubeapiserveroperatorconfigs", scope |-> "root"]

RESTMapping(snapshot, kind) ==
    IF kind \in snapshot
    THEN [ok |-> TRUE, resource |-> KindInfo(kind).resource, scope |-> KindInfo(kind).scope]
    ELSE [ok |-> FALSE, resource |-> "", scope |-> ""]

\* The object a create request addresses: the resource of the mapping, the
\* manifest's namespace unless the scope is root, and the manifest's name.
RequestObject(mapping, m) ==
    [resource |-> mapping.resource,
     namespace |-> IF mapping.scope = "root" THEN "" ELSE m.namespace,
     name |-> m.name]

\* Every object the manifests can address, with all kinds resolved.
Objects == {RequestObject(RESTMapping(Kinds, KindOf(n)), Manifest(n)) : n \in 1..NumManifests}


\* ------------------------------------------------------------- the client
\* What the platform can answer to a create request for obj: "AlreadyExists"
\* exactly when it holds obj; success stores obj; any other error either
\* leaves the platform as it was or (a reply lost after the write) stores obj.
ClientCreate(plat, obj) ==
    IF obj \in plat
    THEN {[err |-> "AlreadyExists", platform |-> plat],
          [err |-> "Other", platform |-> plat]}
    ELSE {[err |-> "nil", platform |-> plat \cup {obj}],
          [err |-> "Other", platform |-> plat],
          [err |-> "Other", platform |-> plat \cup {obj}]}

\* ---------------------------------------------------------------- variables
VARIABLES
    platform,             \* the objects the platform holds
    pc,                   \* each invocation's position
    caller,               \* who calls create: "driver" or "test"
    loaded,               \* the manifest map load returned
    manifests,            \* the pending map create mutates
    mapper,               \* the discovery snapshot behind the current mapper
    lastCreateError,      \* EnsureManifestsCreated's lastCreateError
    err,                  \* the polling closure's err
    refresh,              \* the polling closure's refresh
    pollErr,              \* what wait.PollImmediateUntil returned
    ret,                  \* what EnsureManifestsCreated returned
    ctxDone,              \* ctx.Done() is closed
    rounds,               \* calls of create so far in this invocation, counted up to MaxRounds
    sortedManifestPaths,  \* create's sortedManifestPaths
    idx,                  \* create's position in sortedManifestPaths
    errs,                 \* create's errs
    reloadDiscovery,      \* create's reloadDiscovery
    calls,                \* history: this round's attempts, in order
    pendingAtStart,       \* history: the pending map when the round started
    platformAtStart,      \* history: the platform when the test called create
    succeeded,            \* history: the paths whose create was answered nil or already-exists
    duplicated,           \* history: a create was accepted for an object the platform held
    doneAtEntry,          \* history: ctx.Done() was closed when the first round started
    quietRound            \* history: some round returned without the stale-mapping signal

vars == <<platform, pc, caller, loaded, manifests, mapper, lastCreateError, err,
          refresh, pollErr, ret, ctxDone, rounds, sortedManifestPaths, idx, errs,
          reloadDiscovery, calls, pendingAtStart, platformAtStart,
          succeeded, duplicated, doneAtEntry, quietRound>>

historyVars == <<succeeded, duplicated, doneAtEntry, quietRound>>

driverVars == <<lastCreateError, err, refresh, pollErr, ret>>

roundVars == <<sortedManifestPaths, idx, errs, reloadDiscovery, calls,
               pendingAtStart, platformAtStart>>

\* ---------------------------------------------------------------- one round
\* Variants of the loop body, each with one slip, used to test the claims.
\* A create failure is neither recorded nor retried as a failure.
LoopBodyDropsFailure(ms, es, reload, path, resolved, replyErr) ==
    IF ~resolved
    THEN [manifests |-> ms, errs |-> Put(es, path, MappingFailure), reloadDiscovery |-> TRUE]
    ELSE IF replyErr = "AlreadyExists"
    THEN [manifests |-> Delete(ms, path), errs |-> es, reloadDiscovery |-> reload]
    ELSE IF replyErr # "nil"
    THEN [manifests |-> ms, errs |-> es, reloadDiscovery |-> reload]
    ELSE [manifests |-> Delete(ms, path), errs |-> es, reloadDiscovery |-> reload]

\* No kerrors.IsAlreadyExists check: "already exists" is a create failure.
LoopBodyNoAlreadyExists(ms, es, reload, path, resolved, replyErr) ==
    IF ~resolved
    THEN [manifests |-> ms, errs |-> Put(es, path, MappingFailure), reloadDiscovery |-> TRUE]
    ELSE IF replyErr # "nil"
    THEN [manifests |-> ms, errs |-> Put(es, path, CreateFailure), reloadDiscovery |-> reload]
    ELSE [manifests |-> Delete(ms, path), errs |-> es, reloadDiscovery |-> reload]

\* The client's result is assigned to manifests[path]: a failed create leaves
\* the nil object in the map.
LoopBodyStoresResult(ms, es, reload, path, resolved, replyErr) ==
    IF ~resolved
    THEN [manifests |-> ms, errs |-> Put(es, path, MappingFailure), reloadDiscovery |-> TRUE]
    ELSE IF replyErr = "AlreadyExists"
    THEN [manifests |-> Delete(ms, path), errs |-> es, reloadDiscovery |-> reload]
    ELSE IF replyErr # "nil"
    THEN [manifests |-> Put(ms, path, [kind |-> "", namespace |-> "", name |-> 0]),
          errs |-> Put(es, path, CreateFailure), reloadDiscovery |-> reload]
    ELSE [manifests |-> Delete(ms, path), errs |-> es, reloadDiscovery |-> reload]

\* reloadDiscovery is set on every failure, not only on a mapping failure.
LoopBodyReloadOnAnyError(ms, es, reload, path, resolved, replyErr) ==
    IF ~resolved
    THEN [manifests |-> ms, errs |-> Put(es, path, MappingFailure), reloadDiscovery |-> TRUE]
    ELSE IF replyErr = "AlreadyExists"
    THEN [manifests |-> Delete(ms, path), errs |-> es, reloadDiscovery |-> reload]
    ELSE IF replyErr # "nil"
    THEN [manifests |-> ms, errs |-> Put(es, path, CreateFailure), reloadDiscovery |-> TRUE]
    ELSE [manifests |-> Delete(ms, path), errs |-> es, reloadDiscovery |-> reload]

\* A created manifest is not deleted from the map.
LoopBodyKeepsCreated(ms, es, reload, path, resolved, replyErr) ==
    IF ~resolved
    THEN [manifests |-> ms, errs |-> Put(es, path, MappingFailure), reloadDiscovery |-> TRUE]
    ELSE IF replyErr = "AlreadyExists"
    THEN [manifests |-> Delete(ms, path), errs |-> es, reloadDiscovery |-> reload]
    ELSE IF replyErr # "nil"
    THEN [manifests |-> ms, errs |-> Put(es, path, CreateFailure), reloadDiscovery |-> reload]
    ELSE [manifests |-> ms, errs |-> es, reloadDiscovery |-> reload]

\* The body of create's for loop for one path: the mapping failed (resolved is
\* FALSE), or the client answered replyErr.
LoopBody(ms, es, reload, path, resolved, replyErr) ==
    IF ~resolved
    THEN [manifests |-> ms, errs |-> Put(es, path, MappingFailure), reloadDiscovery |-> TRUE]
    ELSE IF replyErr = "AlreadyExists"
    THEN [manifests |-> Delete(ms, path), errs |-> es, reloadDiscovery |-> reload]
    ELSE IF replyErr # "nil"
    THEN [manifests |-> ms, errs |-> Put(es, path, CreateFailure), reloadDiscovery |-> reload]
    ELSE [manifests |-> Delete(ms, path), errs |-> es, reloadDiscovery |-> reload]

\* create is entered: the keys are collected in map order and sorted, errs and
\* reloadDiscovery start empty and false.
CreateBegin(self) ==
    /\ pc[self] = "condition"
    /\ \E order \in RangeOrders(DOMAIN manifests[self]) :
          sortedManifestPaths' = [sortedManifestPaths EXCEPT ![self] = SortStrings(order)]
    /\ idx' = [idx EXCEPT ![self] = 1]
    /\ errs' = [errs EXCEPT ![self] = EmptyMap]
    /\ reloadDiscovery' = [reloadDiscovery EXCEPT ![self] = FALSE]
    /\ calls' = [calls EXCEPT ![self] = <<>>]
    /\ pendingAtStart' = [pendingAtStart EXCEPT ![self] = manifests[self]]
    /\ rounds' = [rounds EXCEPT ![self] = IF @ < MaxRounds THEN @ + 1 ELSE @]
    /\ pc' = [pc EXCEPT ![self] = "loop"]
    /\ UNCHANGED <<platform, caller, loaded, manifests, mapper, ctxDone, driverVars,
                   platformAtStart>>
    /\ doneAtEntry' = [doneAtEntry EXCEPT ![self] = IF rounds[self] = 0 THEN ctxDone[self] ELSE @]
    /\ UNCHANGED <<succeeded, duplicated, quietRound>>

\* One iteration of the for loop: resolve the mapping, send the create
\* request, and handle the reply.
CreateStep(self) ==
    /\ pc[self] = "loop"
    /\ idx[self] <= Len(sortedManifestPaths[self])
    /\ LET path == sortedManifestPaths[self][idx[self]]
           m == manifests[self][path]
           mapping == RESTMapping(mapper[self], m.kind)
       IN IF ~mapping.ok
          THEN LET r == LoopBody(manifests[self], errs[self], reloadDiscovery[self],
                                 path, FALSE, "nil")
               IN /\ manifests' = [manifests EXCEPT ![self] = r.manifests]
                  /\ errs' = [errs EXCEPT ![self] = r.errs]
                  /\ reloadDiscovery' = [reloadDiscovery EXCEPT ![self] = r.reloadDiscovery]
                  /\ calls' = [calls EXCEPT ![self] =
                                 Append(@, [path |-> path, request |-> FALSE, reply |-> "none"])]
                  /\ UNCHANGED <<platform, succeeded, duplicated>>
          ELSE \E reply \in ClientCreate(platform, RequestObject(mapping, m)) :
               LET r == LoopBody(manifests[self], errs[self], reloadDiscovery[self],
                                 path, TRUE, reply.err)
               IN /\ manifests' = [manifests EXCEPT ![self] = r.manifests]
                  /\ errs' = [errs EXCEPT ![self] = r.errs]
                  /\ reloadDiscovery' = [reloadDiscovery EXCEPT ![self] = r.reloadDiscovery]
                  /\ calls' = [calls EXCEPT ![self] =
                                 Append(@, [path |-> path, request |-> TRUE, reply |-> reply.err])]
                  /\ platform' = reply.platform
                  /\ succeeded' = [succeeded EXCEPT ![self] =
                                     IF reply.err \in {"nil", "AlreadyExists"}
                                     THEN @ \cup {path} ELSE @]
                  /\ duplicated' = (duplicated \/ (/\ RequestObject(mapping, m) \in platform
                                                     /\ reply.err = "nil"))
    /\ idx' = [idx EXCEPT ![self] = @ + 1]
    /\ UNCHANGED <<pc, caller, loaded, mapper, ctxDone, rounds, driverVars,
                   sortedManifestPaths, pendingAtStart, platformAtStart>>
    /\ UNCHANGED <<doneAtEntry, quietRound>>

\* A variant of the return with one slip: the loop is left at the first
\* recorded failure.
CreateReturnEarly(self) ==
    /\ pc[self] = "loop"
    /\ (idx[self] > Len(sortedManifestPaths[self]) \/ errs[self] # EmptyMap)
    /\ \E order \in RangeOrders(DOMAIN errs[self]) :
          err' = [err EXCEPT ![self] = FormatErrors(errs[self], order)]
    /\ refresh' = [refresh EXCEPT ![self] = reloadDiscovery[self]]
    /\ pc' = [pc EXCEPT ![self] = "created"]
    /\ UNCHANGED <<platform, caller, loaded, manifests, mapper, ctxDone, rounds,
                   lastCreateError, pollErr, ret, roundVars>>
    /\ quietRound' = [quietRound EXCEPT ![self] = @ \/ ~reloadDiscovery[self]]
    /\ UNCHANGED <<succeeded, duplicated, doneAtEntry>>

\* create returns formatErrors(errs) and reloadDiscovery to its caller.
CreateReturn(self) ==
    /\ pc[self] = "loop"
    /\ idx[self] > Len(sortedManifestPaths[self])
    /\ \E order \in RangeOrders(DOMAIN errs[self]) :
          err' = [err EXCEPT ![self] = FormatErrors(errs[self], order)]
    /\ refresh' = [refresh EXCEPT ![self] = reloadDiscovery[self]]
    /\ pc' = [pc EXCEPT ![self] = "created"]
    /\ UNCHANGED <<platform, caller, loaded, manifests, mapper, ctxDone, rounds,
                   lastCreateError, pollErr, ret, roundVars>>
    /\ quietRound' = [quietRound EXCEPT ![self] = @ \/ ~reloadDiscovery[self]]
    /\ UNCHANGED <<succeeded, duplicated, doneAtEntry>>


\* --------------------------------------------------------------- the driver
\* EnsureManifestsCreated up to the polling loop: the two clients, load and
\* the first getRESTMapper; each can fail, and the function then returns the
\* error at once.
Setup(self) ==
    /\ pc[self] = "start"
    /\ \/ /\ \E e \in {SetupErr, DiscoveryErr} : ret' = [ret EXCEPT ![self] = e]
          /\ pc' = [pc EXCEPT ![self] = "returned"]
          /\ UNCHANGED <<loaded, manifests, mapper>>
       \/ /\ \E ms \in ManifestMaps :
               /\ loaded' = [loaded EXCEPT ![self] = ms]
               /\ manifests' = [manifests EXCEPT ![self] = ms]
          /\ \E snapshot \in SUBSET Kinds : mapper' = [mapper EXCEPT ![self] = snapshot]
          /\ pc' = [pc EXCEPT ![self] = "condition"]
          /\ UNCHANGED ret
    /\ UNCHANGED <<platform, caller, lastCreateError, err, refresh, pollErr, ctxDone,
                   rounds, roundVars>>
    /\ UNCHANGED historyVars

\* A variant of AfterCondition with one slip: the stop channel is not looked at
\* after the first call, the poll goes straight to the select.
AfterConditionNoImmediate(n) == "wait"

\* Where the poll goes after the condition returned (false, nil): the first
\* call is followed by PollImmediateUntil's own look at the stop channel, every
\* later one by the select of WaitFor.
AfterCondition(n) == IF n = 1 THEN "immediate" ELSE "wait"

\* Variants of the closure, each with one slip.
\* The mapper is rebuilt after every failed round, whatever the signal.
AfterCreateAlwaysRefresh(self) ==
    /\ pc[self] = "created"
    /\ caller[self] = "driver"
    /\ IF err[self] = Nil
       THEN /\ lastCreateError' = [lastCreateError EXCEPT ![self] = Nil]
            /\ pollErr' = [pollErr EXCEPT ![self] = Nil]
            /\ pc' = [pc EXCEPT ![self] = "pollReturned"]
       ELSE /\ pc' = [pc EXCEPT ![self] = "refreshing"]
            /\ UNCHANGED <<lastCreateError, pollErr>>
    /\ UNCHANGED <<platform, caller, loaded, manifests, mapper, err, refresh, ret,
                   ctxDone, rounds, roundVars>>
    /\ UNCHANGED historyVars

\* A failed round without the signal ends the poll with the round's error.
AfterCreateFailFast(self) ==
    /\ pc[self] = "created"
    /\ caller[self] = "driver"
    /\ IF err[self] = Nil
       THEN /\ lastCreateError' = [lastCreateError EXCEPT ![self] = Nil]
            /\ pollErr' = [pollErr EXCEPT ![self] = Nil]
            /\ pc' = [pc EXCEPT ![self] = "pollReturned"]
       ELSE IF refresh[self]
       THEN /\ pc' = [pc EXCEPT ![self] = "refreshing"]
            /\ UNCHANGED <<lastCreateError, pollErr>>
       ELSE /\ lastCreateError' = [lastCreateError EXCEPT ![self] = err[self]]
            /\ pollErr' = [pollErr EXCEPT ![self] = err[self]]
            /\ pc' = [pc EXCEPT ![self] = "pollReturned"]
    /\ UNCHANGED <<platform, caller, loaded, manifests, mapper, err, refresh, ret,
                   ctxDone, rounds, roundVars>>
    /\ UNCHANGED historyVars

\* The polling closure after create returned, up to the call of getRESTMapper.
AfterCreate(self) ==
    /\ pc[self] = "created"
    /\ caller[self] = "driver"
    /\ IF err[self] = Nil
       THEN /\ lastCreateError' = [lastCreateError EXCEPT ![self] = Nil]
            /\ pollErr' = [pollErr EXCEPT ![self] = Nil]
            /\ pc' = [pc EXCEPT ![self] = "pollReturned"]
       ELSE IF refresh[self]
       THEN /\ pc' = [pc EXCEPT ![self] = "refreshing"]
            /\ UNCHANGED <<lastCreateError, pollErr>>
       ELSE /\ lastCreateError' = [lastCreateError EXCEPT ![self] = err[self]]
            /\ pc' = [pc EXCEPT ![self] = AfterCondition(rounds[self])]
            /\ UNCHANGED pollErr
    /\ UNCHANGED <<platform, caller, loaded, manifests, mapper, err, refresh, ret,
                   ctxDone, rounds, roundVars>>
    /\ UNCHANGED historyVars

\* mapper, err = getRESTMapper() inside the closure, and what follows it: the
\* closure's err now holds getRESTMapper's error, and that is what is returned
\* or stored in lastCreateError.
Refresh(self) ==
    /\ pc[self] = "refreshing"
    /\ \/ /\ err' = [err EXCEPT ![self] = DiscoveryErr]
          /\ pollErr' = [pollErr EXCEPT ![self] = DiscoveryErr]
          /\ pc' = [pc EXCEPT ![self] = "pollReturned"]
          /\ UNCHANGED <<mapper, lastCreateError>>
       \/ /\ \E snapshot \in SUBSET Kinds : mapper' = [mapper EXCEPT ![self] = snapshot]
          /\ err' = [err EXCEPT ![self] = Nil]
          /\ lastCreateError' = [lastCreateError EXCEPT ![self] = err'[self]]
          /\ pc' = [pc EXCEPT ![self] = AfterCondition(rounds[self])]
          /\ UNCHANGED pollErr
    /\ UNCHANGED <<platform, caller, loaded, manifests, refresh, ret, ctxDone, rounds,
                   roundVars>>
    /\ UNCHANGED historyVars

\* PollImmediateUntil after the first condition call: a non-blocking look at
\* the stop channel, then PollUntil.
ImmediateCheck(self) ==
    /\ pc[self] = "immediate"
    /\ IF ctxDone[self]
       THEN /\ pollErr' = [pollErr EXCEPT ![self] = ErrWaitTimeout]
            /\ pc' = [pc EXCEPT ![self] = "pollReturned"]
       ELSE /\ pc' = [pc EXCEPT ![self] = "wait"]
            /\ UNCHANGED pollErr
    /\ UNCHANGED <<platform, caller, loaded, manifests, mapper, lastCreateError, err,
                   refresh, ret, ctxDone, rounds, roundVars>>
    /\ UNCHANGED historyVars

\* WaitFor's select takes the tick: the condition is called again.
Tick(self) ==
    /\ pc[self] = "wait"
    /\ rounds[self] < MaxRounds
    /\ pc' = [pc EXCEPT ![self] = "condition"]
    /\ UNCHANGED <<platform, caller, loaded, manifests, mapper, driverVars, ctxDone,
                   rounds, roundVars>>
    /\ UNCHANGED historyVars

\* A variant of Timeout with one slip: the closed stop channel is taken for a
\* tick, and the condition is called again.
TimeoutTakenAsTick(self) ==
    /\ pc[self] = "wait"
    /\ ctxDone[self]
    /\ pc' = [pc EXCEPT ![self] = "condition"]
    /\ UNCHANGED <<platform, caller, loaded, manifests, mapper, driverVars, ctxDone,
                   rounds, roundVars>>
    /\ UNCHANGED historyVars

\* WaitFor's select takes the closed stop channel.
Timeout(self) ==
    /\ pc[self] = "wait"
    /\ ctxDone[self]
    /\ pollErr' = [pollErr EXCEPT ![self] = ErrWaitTimeout]
    /\ pc' = [pc EXCEPT ![self] = "pollReturned"]
    /\ UNCHANGED <<platform, caller, loaded, manifests, mapper, lastCreateError, err,
                   refresh, ret, ctxDone, rounds, roundVars>>
    /\ UNCHANGED historyVars

\* Variants of the final return, each with one slip.
\* The poll's error is returned whatever lastCreateError holds.
ReturnValuePolledOnly(last, polled) == polled

\* lastCreateError is returned whatever the poll returned.
ReturnValueLastOnly(last, polled) == last

\* The end of EnsureManifestsCreated: lastCreateError if it is set, else the
\* poll's error.
ReturnValue(last, polled) == IF last # Nil THEN last ELSE polled

Return(self) ==
    /\ pc[self] = "pollReturned"
    /\ ret' = [ret EXCEPT ![self] = ReturnValue(lastCreateError[self], pollErr[self])]
    /\ pc' = [pc EXCEPT ![self] = "returned"]
    /\ UNCHANGED <<platform, caller, loaded, manifests, mapper, lastCreateError, err,
                   refresh, pollErr, ctxDone, rounds, roundVars>>
    /\ UNCHANGED historyVars

\* The caller's context is cancelled or its deadline passes.
Deadline(self) ==
    /\ pc[self] \in {"start", "condition", "loop", "created", "refreshing", "immediate", "wait"}
    /\ caller[self] = "driver"
    /\ ~ctxDone[self]
    /\ ctxDone' = [ctxDone EXCEPT ![self] = TRUE]
    /\ UNCHANGED <<platform, pc, caller, loaded, manifests, mapper, driverVars, rounds,
                   roundVars>>
    /\ UNCHANGED historyVars

\* ------------------------------------------------------ the test's callers
\* TestCreate calls create directly on a freshly loaded map, with a mapper of
\* its choice; here the calls follow one another against the same platform.
TestCall(self) ==
    /\ pc[self] = "test"
    /\ rounds[self] < MaxCalls
    /\ \E ms \in ManifestMaps :
         /\ rounds[self] > 0 => ms = loaded[self]
         /\ loaded' = [loaded EXCEPT ![self] = ms]
         /\ manifests' = [manifests EXCEPT ![self] = ms]
    /\ \E snapshot \in SUBSET Kinds : mapper' = [mapper EXCEPT ![self] = snapshot]
    /\ pc' = [pc EXCEPT ![self] = "condition"]
    /\ platformAtStart' = [platformAtStart EXCEPT ![self] = platform]
    /\ UNCHANGED <<platform, caller, driverVars, ctxDone, rounds, sortedManifestPaths,
                   idx, errs, reloadDiscovery, calls, pendingAtStart>>
    /\ succeeded' = [succeeded EXCEPT ![self] = {}]
    /\ UNCHANGED <<duplicated, doneAtEntry, quietRound>>

\* create returned to the test, which inspects err, reload and len(manifests).
TestCheck(self) ==
    /\ pc[self] = "created"
    /\ caller[self] = "test"
    /\ pc' = [pc EXCEPT ![self] = "test"]
    /\ UNCHANGED <<platform, caller, loaded, manifests, mapper, driverVars, ctxDone,
                   rounds, roundVars>>
    /\ UNCHANGED historyVars

\* ------------------------------------------------------------ specifications
InitCommon ==
    /\ platform \in SUBSET Objects
    /\ loaded = [i \in Insts |-> EmptyMap]
    /\ manifests = [i \in Insts |-> EmptyMap]
    /\ mapper = [i \in Insts |-> {}]
    /\ lastCreateError = [i \in Insts |-> Nil]
    /\ err = [i \in Insts |-> Nil]
    /\ refresh = [i \in Insts |-> FALSE]
    /\ pollErr = [i \in Insts |-> Nil]
    /\ ret = [i \in Insts |-> Nil]
    /\ ctxDone = [i \in Insts |-> FALSE]
    /\ rounds = [i \in Insts |-> 0]
    /\ sortedManifestPaths = [i \in Insts |-> <<>>]
    /\ idx = [i \in Insts |-> 1]
    /\ errs = [i \in Insts |-> EmptyMap]
    /\ reloadDiscovery = [i \in Insts |-> FALSE]
    /\ calls = [i \in Insts |-> <<>>]
    /\ pendingAtStart = [i \in Insts |-> EmptyMap]
    /\ platformAtStart = [i \in Insts |-> {}]
    /\ succeeded = [i \in Insts |-> {}]
    /\ duplicated = FALSE
    /\ doneAtEntry = [i \in Insts |-> FALSE]
    /\ quietRound = [i \in Insts |-> FALSE]

\* One invocation of EnsureManifestsCreated.
Init ==
    /\ InitCommon
    /\ pc = [i \in Insts |-> IF i = 1 THEN "start" ELSE "off"]
    /\ caller = [i \in Insts |-> "driver"]

Next ==
    \E self \in Insts :
        \/ Setup(self)
        \/ CreateBegin(self)
        \/ CreateStep(self)
        \/ CreateReturn(self)
        \/ AfterCreate(self)
        \/ Refresh(self)
        \/ ImmediateCheck(self)
        \/ Tick(self)
        \/ Timeout(self)
        \/ Return(self)
        \/ Deadline(self)

Spec == Init /\ [][Next]_vars

\* create called directly, as TestCreate does, several times in a row.
InitApply ==
    /\ InitCommon
    /\ pc = [i \in Insts |-> IF i = 1 THEN "test" ELSE "off"]
    /\ caller = [i \in Insts |-> "test"]

NextApply ==
    \E self \in Insts :
        \/ TestCall(self)
        \/ CreateBegin(self)
        \/ CreateStep(self)
        \/ CreateReturn(self)
        \/ TestCheck(self)

SpecApply == InitApply /\ [][NextApply]_vars


\* Two invocations of EnsureManifestsCreated on the same manifest directory
\* against one platform, their steps interleaved.  The platform starts
\* empty, its discovery lists every kind and the callers' contexts are never
\* cancelled, so a run ends with a round without failures (or at the bound on
\* the rounds).
InitTwo ==
    /\ InitCommon
    /\ platform = {}
    /\ pc = [i \in Insts |-> "start"]
    /\ caller = [i \in Insts |-> "driver"]

\* Both invocations read the same directory, which holds the first
\* NumManifestsTwo files: load returns the same map to both.
SameDirectory(self) ==
    pc'[self] # "returned" =>
        DOMAIN loaded'[self] = {ManifestPath(n) : n \in 1..NumManifestsTwo}

\* Discovery lists every kind the manifests use.
FullDiscovery(self) == pc'[self] # "returned" => mapper'[self] = Kinds

NextTwo ==
    \E self \in Insts :
        \/ Setup(self) /\ SameDirectory(self) /\ FullDiscovery(self)
        \/ CreateBegin(self)
        \/ CreateStep(self)
        \/ CreateReturn(self)
        \/ AfterCreate(self)
        \/ ImmediateCheck(self)
        \/ Tick(self) /\ rounds[self] < MaxRoundsTwo
        \/ Return(self)

SpecTwo == InitTwo /\ [][NextTwo]_vars

\* The object manifest m stands for on the platform.
ObjectOf(m) == RequestObject(RESTMapping(Kinds, m.kind), m)

\* The size of the directory in the runs checked for termination.
NumManifestsLive == 2

\* One invocation on a directory of up to NumManifestsLive files, against a
\* platform that may hold their objects already.
InitLive ==
    /\ Init
    /\ platform \subseteq {ObjectOf(Manifest(n)) : n \in 1..NumManifestsLive}

SmallDirectory(self) ==
    DOMAIN loaded'[self] \subseteq {ManifestPath(n) : n \in 1..NumManifestsLive}

\* One invocation whose polling loop has no bound on its rounds: WaitFor's
\* select takes the tick however many rounds there were (the counter rounds
\* stays at MaxRounds once it got there).
Poll(self) ==
    /\ pc[self] = "wait"
    /\ pc' = [pc EXCEPT ![self] = "condition"]
    /\ UNCHANGED <<platform, caller, loaded, manifests, mapper, driverVars, ctxDone,
                   rounds, roundVars>>
    /\ UNCHANGED historyVars

\* The steps the goroutine takes by itself: every call it makes returns.
ProgramStep(self) ==
    \/ Setup(self) /\ SmallDirectory(self)
    \/ CreateBegin(self)
    \/ CreateStep(self)
    \/ CreateReturn(self)
    \/ AfterCreate(self)
    \/ Refresh(self)
    \/ ImmediateCheck(self)
    \/ Return(self)

NextLive ==
    \E self \in Insts :
        \/ ProgramStep(self)
        \/ Poll(self)
        \/ Timeout(self)
        \/ Deadline(self)

\* The goroutine keeps running, and a select that finds the stop channel closed
\* again and again takes it in the end: Go chooses among the ready cases of a
\* select at random.
Fairness ==
    \A self \in Insts :
        /\ WF_vars(ProgramStep(self))
        /\ SF_vars(Timeout(self))

SpecLive == InitLive /\ [][NextLive]_vars /\ Fairness

\* ------------------------------------------------------ helpers of the claims
\* e is the aggregated error of exactly the failures es.
AggregateOf(e, es) ==
    /\ e.kind = "aggregate"
    /\ Len(e.lines) = Cardinality(DOMAIN es)
    /\ {e.lines[k] : k \in 1..Len(e.lines)} = {<<p, es[p]>> : p \in DOMAIN es}

\* Map f is map g with some entries removed and none changed.
SubMap(f, g) ==
    /\ DOMAIN f \subseteq DOMAIN g
    /\ \A p \in DOMAIN f : f[p] = g[p]

\* The paths of this round's attempts whose reply was success or already-exists.
Removed(self) ==
    {calls[self][k].path : k \in {j \in 1..Len(calls[self]) :
                                     calls[self][j].reply \in {"nil", "AlreadyExists"}}}

InRound(self) == pc[self] \in {"loop", "created"}

\* ------------------------------------------------------------------- claims
\* C1: a run of EnsureManifestsCreated that returns nil has an empty pending
\* set and every loaded manifest's object is on the platform; so a run that
\* returns with a manifest still pending returns a non-nil error.
C1_NilOnlyIfAllCreated ==
    \A self \in Insts :
        (pc[self] = "returned" /\ ret[self] = Nil) =>
            /\ manifests[self] = EmptyMap
            /\ \A p \in DOMAIN loaded[self] : ObjectOf(loaded[self][p]) \in platform

C1_Witness ==
    /\ pc[1] = "returned"
    /\ ret[1] = Nil
    /\ Cardinality(DOMAIN loaded[1]) = NumManifests
    /\ rounds[1] >= 2

\* C2 (as claimed): when the poll ends on the deadline, the returned error is
\* the aggregated error of the most recent round, whatever kind of failure
\* that round recorded.
C2_TimeoutReturnsLastRoundError ==
    \A self \in Insts :
        (pc[self] = "returned" /\ pollErr[self] = ErrWaitTimeout) =>
            AggregateOf(ret[self], errs[self])

\* C3: when the poll ends on the deadline and the last completed round raised
\* no stale-mapping signal, the returned error is the aggregate of that
\* round's failures, all of them create failures, and not the timeout error.
C3_TimeoutReturnsCreateFailures ==
    \A self \in Insts :
        (pc[self] = "returned" /\ pollErr[self] = ErrWaitTimeout /\ ~refresh[self]) =>
            /\ AggregateOf(ret[self], errs[self])
            /\ \A k \in 1..Len(ret[self].lines) : ret[self].lines[k][2] = CreateFailure
            /\ ret[self] # ErrWaitTimeout

C3_Witness ==
    /\ pc[1] = "returned"
    /\ pollErr[1] = ErrWaitTimeout
    /\ ~refresh[1]
    /\ rounds[1] >= 2
    /\ Len(ret[1].lines) = 1
    /\ ret[1].lines[1][2] = CreateFailure

\* C4: a manifest whose create was answered "already exists" is neither
\* pending nor recorded as failed; a round in which every pending manifest's
\* create succeeded or was answered "already exists" returns nil and leaves
\* the pending set empty.
C4_AlreadyExistsIsSuccess ==
    \A self \in Insts :
        /\ InRound(self) =>
              \A k \in 1..Len(calls[self]) :
                  calls[self][k].reply = "AlreadyExists" =>
                      /\ calls[self][k].path \notin DOMAIN manifests[self]
                      /\ calls[self][k].path \notin DOMAIN errs[self]
        /\ (/\ pc[self] = "created"
            /\ \A k \in 1..Len(calls[self]) :
                  calls[self][k].reply \in {"nil", "AlreadyExists"}) =>
              /\ err[self] = Nil
              /\ manifests[self] = EmptyMap

C4_Witness ==
    /\ pc[1] = "created"
    /\ Len(calls[1]) = NumManifests
    /\ \E k \in 1..Len(calls[1]) : calls[1][k].reply = "AlreadyExists"
    /\ \E k \in 1..Len(calls[1]) : calls[1][k].reply = "nil"
    /\ err[1] = Nil

\* C5: a second call of create on a fresh copy of the manifest set, with all
\* its types resolving, against a platform that holds every object of the set
\* and answers every request (no error other than already-exists), returns
\* nil, empties its pending set and leaves the platform as it was.
C5_SecondRunIdempotent ==
    \A self \in Insts :
        (/\ pc[self] = "created"
         /\ rounds[self] >= 2
         /\ pendingAtStart[self] = loaded[self]
         /\ \A p \in DOMAIN loaded[self] :
               /\ loaded[self][p].kind \in mapper[self]
               /\ ObjectOf(loaded[self][p]) \in platformAtStart[self]
         /\ \A k \in 1..Len(calls[self]) : calls[self][k].reply # "Other") =>
            /\ err[self] = Nil
            /\ manifests[self] = EmptyMap
            /\ platform = platformAtStart[self]
            /\ \A k \in 1..Len(calls[self]) : calls[self][k].reply = "AlreadyExists"

C5_Witness ==
    /\ pc[1] = "created"
    /\ rounds[1] = 2
    /\ Cardinality(DOMAIN loaded[1]) = NumManifests
    /\ \A p \in DOMAIN loaded[1] : ObjectOf(loaded[1][p]) \in platformAtStart[1]
    /\ Len(calls[1]) = NumManifests
    /\ \A k \in 1..Len(calls[1]) : calls[1][k].reply = "AlreadyExists"
    /\ manifests[1] = EmptyMap


\* C6: within a round the paths are attempted in strictly increasing
\* lexicographic order: sortedManifestPaths lists the paths pending at the
\* start of the round in that order, the attempts made so far are its prefix,
\* and a manifest removed by an earlier attempt is absent from the pending map
\* while the later ones are attempted.
C6_LexicographicOrder ==
    \A self \in Insts :
        InRound(self) =>
            LET sorted == sortedManifestPaths[self]
            IN /\ {sorted[k] : k \in 1..Len(sorted)} = DOMAIN pendingAtStart[self]
               /\ \A a, b \in 1..Len(sorted) : a < b => LexLess(sorted[a], sorted[b])
               /\ Len(calls[self]) = idx[self] - 1
               /\ \A k \in 1..Len(calls[self]) : calls[self][k].path = sorted[k]
               /\ \A p \in Removed(self) : p \notin DOMAIN manifests[self]

C6_Witness ==
    /\ pc[1] = "loop"
    /\ sortedManifestPaths[1] = << <<1>>, <<1, 0>>, <<2>> >>
    /\ idx[1] = 3
    /\ calls[1][1].reply = "nil"
    /\ <<1>> \notin DOMAIN manifests[1]
    /\ <<2>> \in DOMAIN manifests[1]

\* C7: no step of the polling loop adds an entry to the pending map or
\* changes one: the map after any step (hence after any round) is the map
\* before it with entries removed.
C7_PendingNeverGrows ==
    [][\A self \in Insts :
          pc[self] \notin {"off", "start", "test"} =>
              SubMap(manifests'[self], manifests[self])]_vars

C7_Witness ==
    /\ pc[1] = "created"
    /\ rounds[1] = 3
    /\ Cardinality(DOMAIN loaded[1]) = 3
    /\ Cardinality(DOMAIN pendingAtStart[1]) = 2
    /\ Cardinality(DOMAIN manifests[1]) = 1

\* The paths pending at the start of the round whose type the round's mapper
\* does not resolve.
Unresolvable(self) ==
    {p \in DOMAIN pendingAtStart[self] : ~RESTMapping(mapper[self], pendingAtStart[self][p].kind).ok}

\* C8: create returns the stale-mapping signal exactly when some manifest
\* pending at the start of the round has a type the mapper does not resolve;
\* each such manifest has a recorded mapping failure and is still pending; and
\* with the signal the returned error is not nil.
C8_StaleSignal ==
    \A self \in Insts :
        pc[self] = "created" =>
            /\ refresh[self] <=> (Unresolvable(self) # {})
            /\ \A p \in Unresolvable(self) :
                  /\ p \in DOMAIN errs[self]
                  /\ errs[self][p] = MappingFailure
                  /\ p \in DOMAIN manifests[self]
            /\ refresh[self] => err[self] # Nil

C8_Witness ==
    /\ pc[1] = "created"
    /\ refresh[1]
    /\ Cardinality(Unresolvable(1)) = 1
    /\ Cardinality(DOMAIN pendingAtStart[1]) = NumManifests
    /\ \E k \in 1..Len(calls[1]) : calls[1][k].reply = "Other"

\* C9: a round in which every pending manifest's type resolves and the client
\* accepts every create returns nil and no stale-mapping signal and leaves the
\* pending map empty, having sent one request per manifest; a round over an
\* empty pending map sends no request.
C9_AllAccepted ==
    \A self \in Insts :
        pc[self] = "created" =>
            /\ (/\ Unresolvable(self) = {}
                /\ \A k \in 1..Len(calls[self]) : calls[self][k].reply = "nil") =>
                  /\ err[self] = Nil
                  /\ ~refresh[self]
                  /\ manifests[self] = EmptyMap
                  /\ Len(calls[self]) = Cardinality(DOMAIN pendingAtStart[self])
            /\ pendingAtStart[self] = EmptyMap =>
                  /\ calls[self] = <<>>
                  /\ err[self] = Nil
                  /\ ~refresh[self]

C9_Witness ==
    /\ pc[1] = "created"
    /\ rounds[1] = 1
    /\ Cardinality(DOMAIN pendingAtStart[1]) = 3
    /\ Len(calls[1]) = 3
    /\ \A k \in 1..Len(calls[1]) : calls[1][k].reply = "nil"
    /\ manifests[1] = EmptyMap

\* C10: when getRESTMapper fails inside the polling loop, no further round is
\* started and EnsureManifestsCreated returns that error.
C10_RefreshFailureReturned ==
    /\ [](\A self \in Insts :
            (pc[self] = "returned" /\ pollErr[self] = DiscoveryErr) =>
                ret[self] = DiscoveryErr)
    /\ [][\A self \in Insts :
            pollErr[self] = DiscoveryErr =>
                /\ rounds'[self] = rounds[self]
                /\ pc'[self] \in {"pollReturned", "returned"}]_vars

C10_Witness ==
    /\ pc[1] = "returned"
    /\ pollErr[1] = DiscoveryErr
    /\ ret[1] = DiscoveryErr
    /\ rounds[1] >= 2
    /\ manifests[1] # EmptyMap


\* C11: what formatErrors returns depends on the content of the failure map
\* only: nil exactly for the empty map, else one line per failing path, each
\* path once, in increasing lexicographic order, with its failure; every
\* order in which the map could have been visited gives this same value.
C11_FormatErrorsDeterministic ==
    \A self \in Insts :
        pc[self] = "created" =>
            LET e == err[self]
                es == errs[self]
            IN /\ e = Nil <=> es = EmptyMap
               /\ e # Nil =>
                     /\ e.kind = "aggregate"
                     /\ Len(e.lines) = Cardinality(DOMAIN es)
                     /\ {e.lines[k][1] : k \in 1..Len(e.lines)} = DOMAIN es
                     /\ \A k \in 1..Len(e.lines) : e.lines[k][2] = es[e.lines[k][1]]
                     /\ \A a, b \in 1..Len(e.lines) :
                           a < b => LexLess(e.lines[a][1], e.lines[b][1])
               /\ \A order \in RangeOrders(DOMAIN es) : FormatErrors(es, order) = e

C11_Witness ==
    /\ pc[1] = "created"
    /\ Len(err[1].lines) = NumManifests
    /\ \E k \in 1..Len(err[1].lines) : err[1].lines[k][2] = MappingFailure
    /\ \E k \in 1..Len(err[1].lines) : err[1].lines[k][2] = CreateFailure


\* C12: the mapper is rebuilt after a round exactly when that round returned
\* the stale-mapping signal (and so an error); the rebuild is over before the
\* next round starts; a round resolves every type against the mapper it
\* started with; and the mapper changes nowhere but in the rebuild (and in
\* the setup before the loop).
C12_RebuildOnlyOnSignal ==
    /\ [](\A self \in Insts :
            /\ pc[self] = "refreshing" => (refresh[self] /\ err[self] # Nil)
            /\ InRound(self) =>
                  \A k \in 1..Len(calls[self]) :
                      calls[self][k].request <=>
                          (pendingAtStart[self][calls[self][k].path].kind \in mapper[self]))
    /\ [][\A self \in Insts :
            /\ (pc[self] = "created" /\ pc'[self] # "created") =>
                  (pc'[self] = "refreshing" <=> refresh[self])
            /\ (pc[self] = "refreshing" /\ pc'[self] # "refreshing") =>
                  /\ pc'[self] \in {"immediate", "wait", "pollReturned"}
                  /\ rounds'[self] = rounds[self]
                  /\ calls'[self] = calls[self]
            /\ mapper'[self] # mapper[self] => pc[self] \in {"start", "refreshing"}]_vars

C12_Witness ==
    /\ pc[1] = "loop"
    /\ rounds[1] = 2
    /\ mapper[1] = Kinds
    /\ Len(calls[1]) = 2
    /\ calls[1][1].request
    /\ calls[1][2].request
    /\ sortedManifestPaths[1] = << <<1>>, <<1, 0>>, <<2>> >>
    /\ pendingAtStart[1] = loaded[1]
    /\ ~quietRound[1]


\* C13: when a round returns, every manifest that was pending when it started
\* has been attempted exactly once, with a create request exactly when its
\* type resolved, whatever happened to the manifests attempted before it.
C13_NoEarlyExit ==
    \A self \in Insts :
        pc[self] = "created" =>
            /\ Len(calls[self]) = Cardinality(DOMAIN pendingAtStart[self])
            /\ {calls[self][k].path : k \in 1..Len(calls[self])} = DOMAIN pendingAtStart[self]
            /\ \A a, b \in 1..Len(calls[self]) :
                  calls[self][a].path = calls[self][b].path => a = b
            /\ \A k \in 1..Len(calls[self]) :
                  calls[self][k].request <=> calls[self][k].path \notin Unresolvable(self)

C13_Witness ==
    /\ pc[1] = "created"
    /\ Len(calls[1]) = NumManifests
    /\ calls[1][1].reply = "none"
    /\ calls[1][2].reply = "none"
    /\ calls[1][3].reply = "nil"


\* C14: once a create request for a manifest was answered with success or
\* already-exists, the manifest is no longer pending and no later request is
\* sent for it, in this round or any later one; and the platform never accepts
\* a create for an object it holds, so a retry for an object that reached the
\* platform is answered already-exists and not by a second creation.
C14_AtMostOnce ==
    /\ [](/\ ~duplicated
          /\ \A self \in Insts : succeeded[self] \cap DOMAIN manifests[self] = {})
    /\ [][\A self \in Insts :
            (/\ InRound(self)
             /\ Len(calls'[self]) = Len(calls[self]) + 1
             /\ calls'[self][Len(calls'[self])].request) =>
                calls'[self][Len(calls'[self])].path \notin succeeded[self]]_vars

C14_Witness ==
    /\ pc[1] = "created"
    /\ rounds[1] = 3
    /\ Cardinality(DOMAIN loaded[1]) = NumManifests
    /\ Cardinality(succeeded[1]) = 2
    /\ Len(calls[1]) = 2
    /\ calls[1][1].reply = "AlreadyExists"
    /\ calls[1][2].reply = "Other"


\* Every attempt of invocation self's current round was a create request that
\* the platform accepted or rejected as a duplicate.
AllAcceptedOrDuplicate(self) ==
    \A k \in 1..Len(calls[self]) : calls[self][k].reply \in {"nil", "AlreadyExists"}

\* C15: two invocations on the same manifest set, under every interleaving of
\* their requests: a create answered already-exists (the other invocation, or
\* an earlier lost reply, got there first) is never recorded as a failure and
\* the manifest leaves the pending map; the platform never accepts a second
\* create for an object; and an invocation whose every create was accepted or
\* rejected as a duplicate ends after that round with an empty pending map and
\* a nil error, every object of the set being on the platform.
C15_BenignRace ==
    /\ ~duplicated
    /\ \A self \in Insts :
          /\ InRound(self) =>
                \A k \in 1..Len(calls[self]) :
                    calls[self][k].reply = "AlreadyExists" =>
                        /\ calls[self][k].path \notin DOMAIN errs[self]
                        /\ calls[self][k].path \notin DOMAIN manifests[self]
          /\ (/\ pc[self] \in {"created", "pollReturned", "returned"}
              /\ rounds[self] = 1
              /\ AllAcceptedOrDuplicate(self)) =>
                /\ manifests[self] = EmptyMap
                /\ err[self] = Nil
                /\ \A p \in DOMAIN loaded[self] : ObjectOf(loaded[self][p]) \in platform
                /\ pc[self] = "returned" => ret[self] = Nil

C15_Witness ==
    /\ pc[1] = "returned"
    /\ pc[2] = "returned"
    /\ ret[1] = Nil
    /\ ret[2] = Nil
    /\ rounds[1] = 1
    /\ rounds[2] = 1
    /\ Len(calls[1]) = NumManifestsTwo
    /\ \E a, b \in 1..NumManifestsTwo :
          /\ calls[1][a].reply = "nil"
          /\ calls[2][a].reply = "AlreadyExists"
          /\ calls[1][b].reply = "AlreadyExists"
          /\ calls[2][b].reply = "nil"


\* The paths attempted so far in invocation self's current round.
Attempted(self) == {calls[self][k].path : k \in 1..Len(calls[self])}

\* C16: the poll ends only after a round that returned nil, on the stop
\* channel with the context done, or on a failed rebuild of the mapper; a
\* failed round never ends it by itself; and every round attempts every
\* manifest left pending by the round before, so a manifest whose create keeps
\* failing is attempted again in every round.
C16_NoFailFast ==
    /\ [](\A self \in Insts :
            /\ pc[self] = "pollReturned" =>
                  \/ pollErr[self] = Nil /\ err[self] = Nil
                  \/ pollErr[self] = ErrWaitTimeout /\ ctxDone[self]
                  \/ pollErr[self] = DiscoveryErr
            /\ pc[self] = "created" => Attempted(self) = DOMAIN pendingAtStart[self])
    /\ [][\A self \in Insts :
            /\ (pc[self] = "created" /\ err[self] # Nil) =>
                  pc'[self] \in {"created", "refreshing", "immediate", "wait"}
            /\ (pc[self] # "pollReturned" /\ pc'[self] = "pollReturned") =>
                  \/ pc[self] = "created" /\ err[self] = Nil
                  \/ pc[self] = "refreshing" /\ pollErr'[self] = DiscoveryErr
                  \/ pc[self] \in {"immediate", "wait"} /\ ctxDone[self]
            /\ (pc[self] = "condition" /\ pc'[self] = "loop") =>
                  pendingAtStart'[self] = manifests[self]]_vars

C16_Witness ==
    /\ pc[1] = "created"
    /\ rounds[1] = MaxRounds
    /\ ~ctxDone[1]
    /\ lastCreateError[1] # Nil
    /\ \E p \in DOMAIN manifests[1] :
          /\ \E k \in 1..Len(lastCreateError[1].lines) :
                lastCreateError[1].lines[k] = <<p, CreateFailure>>
          /\ \E k \in 1..Len(calls[1]) :
                calls[1][k].path = p /\ calls[1][k].reply = "Other"

\* C17: when a round ends, the paths with a recorded failure are exactly the
\* paths still pending, and create returns nil exactly when none is pending.
C17_FailuresArePending ==
    \A self \in Insts :
        pc[self] = "created" =>
            /\ DOMAIN errs[self] = DOMAIN manifests[self]
            /\ err[self] = Nil <=> manifests[self] = EmptyMap

C17_Witness ==
    /\ pc[1] = "created"
    /\ Cardinality(DOMAIN pendingAtStart[1]) = NumManifests
    /\ Cardinality(DOMAIN manifests[1]) = 2
    /\ DOMAIN errs[1] = DOMAIN manifests[1]
    /\ \E p \in DOMAIN errs[1] : errs[1][p] = MappingFailure
    /\ \E p \in DOMAIN errs[1] : errs[1][p] = CreateFailure
    /\ err[1] # Nil

\* C18: the first round starts straight after the setup, whatever the state of
\* the context: no wait and no look at the stop channel precede it; and when
\* the context was already done on entry, that round is the only one, the poll
\* then gives up with the timeout.
C18_FirstRoundImmediate ==
    /\ [](\A self \in Insts :
            /\ (pc[self] = "condition" /\ rounds[self] = 0) => ENABLED CreateBegin(self)
            /\ pc[self] \in {"immediate", "wait", "pollReturned"} => rounds[self] >= 1
            /\ doneAtEntry[self] =>
                  /\ rounds[self] = 1
                  /\ pc[self] # "wait"
                  /\ (pc[self] = "pollReturned" /\ err[self] # Nil) =>
                        pollErr[self] \in {ErrWaitTimeout, DiscoveryErr})
    /\ [][\A self \in Insts :
            /\ pc[self] = "start" => pc'[self] \in {"start", "condition", "returned"}
            /\ (pc[self] = "condition" /\ rounds[self] = 0) =>
                  pc'[self] \in {"condition", "loop"}]_vars

C18_Witness ==
    /\ pc[1] = "returned"
    /\ doneAtEntry[1]
    /\ rounds[1] = 1
    /\ pollErr[1] = ErrWaitTimeout
    /\ Len(calls[1]) = NumManifests
    /\ \E k \in 1..Len(calls[1]) : calls[1][k].reply = "nil"
    /\ \E k \in 1..Len(calls[1]) : calls[1][k].reply = "Other"

\* C20: once a round of a run has ended without the stale-mapping signal, the
\* mapper of that run is never rebuilt or changed and no later round raises
\* the signal; so while a rebuild is in progress lastCreateError is nil.
C20_QuietStaysQuiet ==
    /\ [](\A self \in Insts :
            /\ quietRound[self] =>
                  /\ pc[self] # "refreshing"
                  /\ pc[self] = "loop" => ~reloadDiscovery[self]
                  /\ pc[self] = "created" => ~refresh[self]
            /\ pc[self] = "refreshing" => lastCreateError[self] = Nil)
    /\ [][\A self \in Insts : quietRound[self] => mapper'[self] = mapper[self]]_vars

C20_Witness ==
    /\ pc[1] = "created"
    /\ quietRound[1]
    /\ rounds[1] = MaxRounds
    /\ lastCreateError[1] # Nil
    /\ mapper[1] # Kinds
    /\ err[1] # Nil
    /\ ~refresh[1]


\* C19: with every call returning, once the context is done the poll stops
\* and EnsureManifestsCreated returns, wherever the run was when the context
\* became done, the wait between two rounds included, and however long the
\* creates keep failing.
C19_ReturnsAfterDeadline ==
    \A self \in Insts : ctxDone[self] ~> (pc[self] = "returned")

C19_Witness ==
    /\ pc[1] = "returned"
    /\ ctxDone[1]
    /\ ~doneAtEntry[1]
    /\ pollErr[1] = ErrWaitTimeout
    /\ rounds[1] = MaxRounds
    /\ lastCreateError[1] # Nil
    /\ ret[1] = lastCreateError[1]

====
